---- MODULE Spec2Model ----
(***************************************************************************)
(* SerialRAM: driver for Microchip 47x04 / 47x16 I2C EERAM.                *)
(*                                                                         *)
(* The handle (SRAM_REGISTER, CONTROL_REGISTER, STORAGE_ARRAY_SIZE) talks  *)
(* to the chip through the Wire transport.  Wire and the chip are outside  *)
(* the repository: Wire is modelled by its buffers, the chip by a plain    *)
(* in-memory simulation (SRAM array, address pointer, STATUS register).    *)
(* Every call of a handle method is one step; `call`, `ret` and `log`      *)
(* record the method called, what it returned and the transport            *)
(* primitives it invoked.                                                  *)
(*                                                                         *)
(* address16b splits the 16-bit address through a union; a8[1] is the high *)
(* byte on the little-endian targets the Arduino core builds for, and the  *)
(* model takes that layout.                                                *)
(***************************************************************************)
EXTENDS Integers, Sequences, FiniteSets, TLC

VARIABLES
    SRAM_REGISTER,       \* int8_t: bus address of the SRAM bank
    CONTROL_REGISTER,    \* int8_t: bus address of the control bank
    STORAGE_ARRAY_SIZE,  \* int8_t: mask for the high byte of an address
    wire,                \* the Wire transport's buffers
    chip,                \* the chip: [mem, ptr, status]
    call,                \* the last method called: [op, args]
    ret,                 \* what it returned: <<v>>, <<>> for a void method
    log,                 \* the transport primitives it invoked, in order
    dest                 \* the caller's array after read(address, values, size)

vars == <<SRAM_REGISTER, CONTROL_REGISTER, STORAGE_ARRAY_SIZE,
          wire, chip, call, ret, log, dest>>

(***************************************************************************)
(* Machine arithmetic                                                      *)
(***************************************************************************)
RECURSIVE And(_, _)
\* a & b on naturals
And(a, b) ==
    IF a = 0 \/ b = 0 THEN 0
    ELSE (a % 2) * (b % 2) + 2 * And(a \div 2, b \div 2)

\* a | b on naturals
Or(a, b) == a + b - And(a, b)

\* conversion to uint8_t
U8(x) == x % 256

\* conversion to uint16_t
U16(x) == x % 65536

\* conversion to int8_t (two's complement)
ToInt8(x) == IF x % 256 >= 128 THEN (x % 256) - 256 ELSE x % 256

\* address16b: a8[1], the high byte of a16
a8_1(a16) == (a16 \div 256) % 256

\* address16b: a8[0], the low byte of a16
a8_0(a16) == a16 % 256

\* C truth value of an integer
Truthy(x) == x # 0

(***************************************************************************)
(* The chip: a 47x16, 2048 bytes of SRAM behind opcode 1010, the STATUS    *)
(* register behind opcode 0011.  The chip-select bits of the bus address   *)
(* are taken to match the pins the handle was given.                       *)
(***************************************************************************)
\* number of bytes of the SRAM array (valid addresses 0x0000..0x07FF)
ChipBytes == 2048

\* which register bank a 7-bit bus address selects
ChipBank(addr) ==
    IF And(addr, 121) = 80 THEN "sram"          \* 1010 A A 0
    ELSE IF And(addr, 121) = 24 THEN "control"  \* 0011 A A 0
    ELSE "none"

\* the SRAM array is kept sparse: mem maps the cells holding a non-zero
\* byte to that byte; MemAt is the byte stored at address a
MemAt(mem, a) == IF a \in DOMAIN mem THEN mem[a] ELSE 0

RECURSIVE MemStore(_, _, _)
\* the array after storing the bytes of data from address p on, wrapping
MemStore(mem, p, data) ==
    IF data = <<>> THEN mem
    ELSE LET cells == IF Head(data) = 0 THEN (DOMAIN mem) \ {p}
                      ELSE (DOMAIN mem) \cup {p}
         IN MemStore([a \in cells |-> IF a = p THEN Head(data) ELSE mem[a]],
                     (p + 1) % ChipBytes, Tail(data))

\* the chip after a write transmission of the bytes tx to bus address addr
ChipWrite(c, addr, tx) ==
    CASE ChipBank(addr) = "sram" /\ Len(tx) >= 2 ->
           LET p == (tx[1] * 256 + tx[2]) % ChipBytes
               data == SubSeq(tx, 3, Len(tx))
           IN [c EXCEPT !.mem = MemStore(c.mem, p, data),
                        !.ptr = (p + Len(data)) % ChipBytes]
      [] ChipBank(addr) = "control" /\ Len(tx) = 2 /\ tx[1] = 0 ->
           [c EXCEPT !.status = tx[2]]
      [] OTHER -> c

\* the n bytes the chip answers to a read request at bus address addr
ChipAnswer(c, addr, n) ==
    CASE ChipBank(addr) = "sram" ->
           [i \in 1..n |-> MemAt(c.mem, (c.ptr + i - 1) % ChipBytes)]
      [] ChipBank(addr) = "control" -> [i \in 1..n |-> c.status]
      [] OTHER -> <<>>

\* the chip after that read request
ChipAfterRead(c, addr, n) ==
    IF ChipBank(addr) = "sram"
    THEN [c EXCEPT !.ptr = (c.ptr + n) % ChipBytes]
    ELSE c

(***************************************************************************)
(* The Wire transport.  A bus value b is [wire, chip, log, status, byte]:  *)
(* the transport's buffers, the chip, the primitives invoked so far, and   *)
(* the results of the last endTransmission and the last read.              *)
(***************************************************************************)
WireIdle == [transmitting |-> FALSE, txAddress |-> 0, txBuffer |-> <<>>,
             rxBuffer |-> <<>>]

Bus(w, c) == [wire |-> w, chip |-> c, log |-> <<>>, status |-> 0, byte |-> 0]

\* Wire.begin()
WireBegin(b) ==
    [b EXCEPT !.wire = WireIdle, !.log = Append(@, <<"begin">>)]

\* Wire.beginTransmission(address)
WireBeginTransmission(b, address) ==
    [b EXCEPT !.wire.transmitting = TRUE,
              !.wire.txAddress = U8(address),
              !.wire.txBuffer = <<>>,
              !.log = Append(@, <<"beginTransmission", U8(address)>>)]

\* Wire.write(data)
WireWrite(b, data) ==
    [b EXCEPT !.wire.txBuffer =
                  IF b.wire.transmitting THEN Append(@, U8(data)) ELSE @,
              !.log = Append(@, <<"write", U8(data)>>)]

RECURSIVE WireWriteAll(_, _)
\* Wire.write(values, size)
WireWriteAll(b, values) ==
    IF values = <<>> THEN b
    ELSE WireWriteAll(WireWrite(b, Head(values)), Tail(values))

\* Wire.endTransmission(): 0 success, 2 NACK on the address
WireEndTransmission(b) ==
    [b EXCEPT !.chip = ChipWrite(@, b.wire.txAddress, b.wire.txBuffer),
              !.status = IF ChipBank(b.wire.txAddress) = "none" THEN 2 ELSE 0,
              !.wire.transmitting = FALSE,
              !.wire.txBuffer = <<>>,
              !.log = Append(@, <<"endTransmission">>)]

\* Wire.requestFrom(address, quantity)
WireRequestFrom(b, address, quantity) ==
    [b EXCEPT !.wire.rxBuffer = ChipAnswer(b.chip, U8(address), quantity),
              !.chip = ChipAfterRead(@, U8(address), quantity),
              !.log = Append(@, <<"requestFrom", U8(address), quantity>>)]

\* Wire.read(): the next received byte, -1 when there is none
WireRead(b) ==
    [b EXCEPT !.byte = IF b.wire.rxBuffer = <<>> THEN -1
                       ELSE Head(b.wire.rxBuffer),
              !.wire.rxBuffer = IF @ = <<>> THEN @ ELSE Tail(@),
              !.log = Append(@, <<"read">>)]

(***************************************************************************)
(* The handle's methods.  Each takes the bus before the call and gives the *)
(* bus after it and the value returned: <<v>>, or <<>> for a void method.  *)
(***************************************************************************)
\* a & b on C ints (16-bit two's complement; a or b may be negative)
IntAnd(a, b) == And(a % 65536, b % 65536)

\* conversion to bool, as the integer a bool converts back to
ToBool(x) == IF x # 0 THEN 1 ELSE 0

\* faulty variant of beginMask: the final shift is left out
beginMask_NoShift(A0, A1) == U8(Or(A0 * 2, A1))

\* begin(): the mask built from A0 and A1
beginMask(A0, A1) == U8(U8(Or(A0 * 2, A1)) * 2)

\* begin(): the value stored in SRAM_REGISTER
beginSram(A0, A1) == ToInt8(Or(80, beginMask(A0, A1)))

\* begin(): the value stored in CONTROL_REGISTER
beginControl(A0, A1) == ToInt8(Or(24, beginMask(A0, A1)))

\* faulty variant of beginArraySize: an unknown SIZE falls back to the 4K mask
beginArraySize_FallbackSmall(SIZE) ==
    IF SIZE = 16 THEN ToInt8(248)
    ELSE IF SIZE = 4 THEN ToInt8(254)
    ELSE ToInt8(254)

\* begin(): the value stored in STORAGE_ARRAY_SIZE
beginArraySize(SIZE) ==
    IF SIZE = 16 THEN ToInt8(248)
    ELSE IF SIZE = 4 THEN ToInt8(254)
    ELSE ToInt8(248)

\* begin(): the value returned
beginStatus(SIZE) ==
    IF SIZE = 16 THEN 0
    ELSE IF SIZE = 4 THEN 0
    ELSE 1

\* begin(A0, A1, SIZE)
begin(b, A0, A1, SIZE) ==
    [SRAM_REGISTER |-> beginSram(A0, A1),
     CONTROL_REGISTER |-> beginControl(A0, A1),
     bus |-> WireBegin(b),
     STORAGE_ARRAY_SIZE |-> beginArraySize(SIZE),
     ret |-> <<beginStatus(SIZE)>>]

\* write(address, value): the bounds test
writeOutOfBounds(address) ==
    LET arrSize == U8(STORAGE_ARRAY_SIZE)
    IN Truthy(And(a8_1(address), arrSize))

\* faulty variant of write: the address bytes are sent low byte first
write_LowByteFirst(b, address, value) ==
    IF writeOutOfBounds(address) THEN [bus |-> b, ret |-> <<5>>]
    ELSE LET b1 == WireBeginTransmission(b, SRAM_REGISTER)
             b2 == WireWrite(b1, a8_0(address))
             b3 == WireWrite(b2, a8_1(address))
             b4 == WireWrite(b3, value)
             b5 == WireEndTransmission(b4)
         IN [bus |-> b5, ret |-> <<b5.status>>]

\* write(address, value)
write(b, address, value) ==
    IF writeOutOfBounds(address) THEN [bus |-> b, ret |-> <<5>>]
    ELSE LET b1 == WireBeginTransmission(b, SRAM_REGISTER)
             b2 == WireWrite(b1, a8_1(address))
             b3 == WireWrite(b2, a8_0(address))
             b4 == WireWrite(b3, value)
             b5 == WireEndTransmission(b4)
         IN [bus |-> b5, ret |-> <<b5.status>>]

\* faulty variant of readOutOfBounds: the mask is applied to the low byte
readOutOfBounds_LowByte(address) ==
    LET arrSize == U8(STORAGE_ARRAY_SIZE)
    IN Truthy(And(a8_0(address), arrSize))

\* read(address): the bounds test
readOutOfBounds(address) ==
    LET arrSize == U8(STORAGE_ARRAY_SIZE)
    IN Truthy(And(a8_1(address), arrSize))

\* faulty variant of read: the bounds test is left out
read_Unchecked(b, address) ==
    LET b1 == WireBeginTransmission(b, SRAM_REGISTER)
        b2 == WireWrite(b1, a8_1(address))
        b3 == WireWrite(b2, a8_0(address))
        b4 == WireEndTransmission(b3)
        b5 == WireRequestFrom(b4, SRAM_REGISTER, 1)
        b6 == WireRead(b5)
        buffer == U8(b6.byte)
        b7 == WireEndTransmission(b6)
    IN [bus |-> b7, ret |-> <<buffer>>]

\* read(address)
read(b, address) ==
    IF readOutOfBounds(address) THEN [bus |-> b, ret |-> <<0>>]
    ELSE LET b1 == WireBeginTransmission(b, SRAM_REGISTER)
             b2 == WireWrite(b1, a8_1(address))
             b3 == WireWrite(b2, a8_0(address))
             b4 == WireEndTransmission(b3)
             b5 == WireRequestFrom(b4, SRAM_REGISTER, 1)
             b6 == WireRead(b5)
             buffer == U8(b6.byte)
             b7 == WireEndTransmission(b6)
         IN [bus |-> b7, ret |-> <<buffer>>]

\* readControlRegister()
readControlRegister(b) ==
    LET b1 == WireBeginTransmission(b, CONTROL_REGISTER)
        b2 == WireWrite(b1, 0)
        b3 == WireEndTransmission(b2)
        b4 == WireRequestFrom(b3, CONTROL_REGISTER, 1)
        b5 == WireRead(b4)
        buffer == U8(b5.byte)
        b6 == WireEndTransmission(b5)
    IN [bus |-> b6, ret |-> buffer]

\* the write of the STATUS register that ends every control setter
writeControlRegister(b, buffer) ==
    LET b1 == WireBeginTransmission(b, CONTROL_REGISTER)
        b2 == WireWrite(b1, 0)
        b3 == WireWrite(b2, buffer)
    IN WireEndTransmission(b3)

\* setAutoStore(): the byte written back
autoStoreByte(buffer, value) ==
    IF value THEN U8(Or(buffer, 2)) ELSE U8(And(buffer, 253))

\* setAutoStore(value)
setAutoStore(b, value) ==
    LET r == readControlRegister(b)
    IN [bus |-> writeControlRegister(r.bus, autoStoreByte(r.ret, value)),
        ret |-> <<>>]

\* getAutoStore()
getAutoStore(b) ==
    LET r == readControlRegister(b)
    IN [bus |-> r.bus, ret |-> <<ToBool(And(r.ret, 2))>>]

\* setWriteProtect(): the argument test
writeProtectInvalid(prot) == Truthy(And(U8(prot), 248))

\* faulty variant of writeProtectByte: the mask also clears bits 0 and 1
writeProtectByte_WideMask(buffer, protectArea) ==
    U8(Or(And(buffer, 224), protectArea * 4))

\* setWriteProtect(): the byte written back
writeProtectByte(buffer, protectArea) ==
    U8(Or(And(buffer, 227), protectArea * 4))

\* faulty variant of setWriteProtect: the register is read before the
\* argument is tested
setWriteProtect_ReadFirst(b, prot) ==
    LET r == readControlRegister(b)
    IN IF writeProtectInvalid(prot) THEN [bus |-> r.bus, ret |-> <<1>>]
       ELSE [bus |-> writeControlRegister(r.bus,
                                          writeProtectByte(r.ret, U8(prot))),
             ret |-> <<0>>]

\* setWriteProtect(prot)
setWriteProtect(b, prot) ==
    IF writeProtectInvalid(prot) THEN [bus |-> b, ret |-> <<1>>]
    ELSE LET r == readControlRegister(b)
         IN [bus |-> writeControlRegister(r.bus,
                                          writeProtectByte(r.ret, U8(prot))),
             ret |-> <<0>>]

\* faulty variant of writeProtectLevel: the shift is left out
writeProtectLevel_NoShift(buffer) == And(buffer, 28)

\* getWriteProtect(): the level held in a STATUS byte
writeProtectLevel(buffer) == And(buffer, 28) \div 4

\* getWriteProtect()
getWriteProtect(b) ==
    LET r == readControlRegister(b)
    IN [bus |-> r.bus, ret |-> <<writeProtectLevel(r.ret)>>]

\* setEventBit(): the byte written back
eventBitByte(buffer, value) ==
    IF value THEN U8(Or(buffer, 1)) ELSE U8(And(buffer, 254))

\* setEventBit(value)
setEventBit(b, value) ==
    LET r == readControlRegister(b)
    IN [bus |-> writeControlRegister(r.bus, eventBitByte(r.ret, value)),
        ret |-> <<>>]

\* getEventBit()
getEventBit(b) ==
    LET r == readControlRegister(b)
    IN [bus |-> r.bus, ret |-> <<ToBool(And(r.ret, 1))>>]

\* getMatch()
getMatch(b) ==
    LET r == readControlRegister(b)
    IN [bus |-> r.bus, ret |-> <<1 - ToBool(And(r.ret, 128))>>]

\* faulty variant of store: the transmission is never ended
store_NoEnd(b) ==
    LET b1 == WireBeginTransmission(b, CONTROL_REGISTER)
        b2 == WireWrite(b1, 85)
        b3 == WireWrite(b2, 51)
    IN [bus |-> b3, ret |-> <<>>]

\* store()
store(b) ==
    LET b1 == WireBeginTransmission(b, CONTROL_REGISTER)
        b2 == WireWrite(b1, 85)
        b3 == WireWrite(b2, 51)
    IN [bus |-> WireEndTransmission(b3), ret |-> <<>>]

\* faulty variant of recall: the store command is sent
recall_StoreCommand(b) ==
    LET b1 == WireBeginTransmission(b, CONTROL_REGISTER)
        b2 == WireWrite(b1, 85)
        b3 == WireWrite(b2, 51)
    IN [bus |-> WireEndTransmission(b3), ret |-> <<>>]

\* recall()
recall(b) ==
    LET b1 == WireBeginTransmission(b, CONTROL_REGISTER)
        b2 == WireWrite(b1, 85)
        b3 == WireWrite(b2, 221)
    IN [bus |-> WireEndTransmission(b3), ret |-> <<>>]

\* write(address, values, size): the bounds test
writeBlockOutOfBounds(address) ==
    Truthy(IntAnd(a8_1(address), STORAGE_ARRAY_SIZE))

\* write(address, values, size)
writeBlock(b, address, values) ==
    IF writeBlockOutOfBounds(address) THEN [bus |-> b, ret |-> <<5>>]
    ELSE LET b1 == WireBeginTransmission(b, SRAM_REGISTER)
             b2 == WireWrite(b1, a8_1(address))
             b3 == WireWrite(b2, a8_0(address))
             b4 == WireWriteAll(b3, values)
             b5 == WireEndTransmission(b4)
         IN [bus |-> b5, ret |-> <<b5.status>>]

\* read(address, values, size): the bounds test
readBlockOutOfBounds(address) ==
    LET arrSize == U16(STORAGE_ARRAY_SIZE)
    IN Truthy(And(a8_1(address), arrSize))

RECURSIVE WireReadAll(_, _, _)
\* read(address, values, size): the loop filling values[0..size-1]
WireReadAll(b, values, n) ==
    IF n = 0 THEN [bus |-> b, values |-> values]
    ELSE LET b1 == WireRead(b)
         IN WireReadAll(b1, Append(values, U8(b1.byte)), n - 1)

\* read(address, values, size): control reaches the end of the function
\* without a return statement, so the value returned is any byte (garbage)
readBlock(b, address, size, garbage) ==
    IF readBlockOutOfBounds(address)
    THEN [bus |-> b, ret |-> <<5>>, values |-> <<>>]
    ELSE LET b1 == WireBeginTransmission(b, SRAM_REGISTER)
             b2 == WireWrite(b1, a8_1(address))
             b3 == WireWrite(b2, a8_0(address))
             b4 == WireEndTransmission(b3)
             b5 == WireRequestFrom(b4, SRAM_REGISTER, size)
             r == WireReadAll(b5, <<>>, size)
             b6 == WireEndTransmission(r.bus)
         IN [bus |-> b6, ret |-> <<garbage>>, values |-> r.values]

(***************************************************************************)
(* Steps: one per call of a public method, its arguments drawn from the    *)
(* sets given                                                              *)
(***************************************************************************)
\* the chip at power-on, its STATUS register holding s
PowerOn(s) == [mem |-> <<>>, ptr |-> 0, status |-> s]

\* the state after a method other than begin() has run with result r
Returned(op, args, r) ==
    /\ wire' = r.bus.wire
    /\ chip' = r.bus.chip
    /\ log' = r.bus.log
    /\ call' = [op |-> op, args |-> args]
    /\ ret' = r.ret
    /\ dest' = IF "values" \in DOMAIN r THEN r.values ELSE <<>>
    /\ UNCHANGED <<SRAM_REGISTER, CONTROL_REGISTER, STORAGE_ARRAY_SIZE>>

\* the first begin(), on an idle transport and a chip just powered on
FirstBegin(P, S, St) ==
    \E A0 \in P, A1 \in P, SIZE \in S, s \in St :
        LET r == begin(Bus(WireIdle, PowerOn(s)), A0, A1, SIZE)
        IN /\ SRAM_REGISTER = r.SRAM_REGISTER
           /\ CONTROL_REGISTER = r.CONTROL_REGISTER
           /\ STORAGE_ARRAY_SIZE = r.STORAGE_ARRAY_SIZE
           /\ wire = r.bus.wire
           /\ chip = r.bus.chip
           /\ log = r.bus.log
           /\ call = [op |-> "begin", args |-> <<A0, A1, SIZE>>]
           /\ ret = r.ret
           /\ dest = <<>>

Begin(P, S) ==
    \E A0 \in P, A1 \in P, SIZE \in S :
        LET r == begin(Bus(wire, chip), A0, A1, SIZE)
        IN /\ SRAM_REGISTER' = r.SRAM_REGISTER
           /\ CONTROL_REGISTER' = r.CONTROL_REGISTER
           /\ STORAGE_ARRAY_SIZE' = r.STORAGE_ARRAY_SIZE
           /\ wire' = r.bus.wire
           /\ chip' = r.bus.chip
           /\ log' = r.bus.log
           /\ call' = [op |-> "begin", args |-> <<A0, A1, SIZE>>]
           /\ ret' = r.ret
           /\ dest' = <<>>

Write(A, V) ==
    \E address \in A, value \in V :
        Returned("write", <<address, value>>,
                 write(Bus(wire, chip), address, value))

Read(A) ==
    \E address \in A :
        Returned("read", <<address>>, read(Bus(wire, chip), address))

WriteBlock(A, B) ==
    \E address \in A, block \in B :
        Returned("writeBlock", <<address, block>>,
                 writeBlock(Bus(wire, chip), address, block))

ReadBlock(A, N, G) ==
    \E address \in A, size \in N, garbage \in G :
        Returned("readBlock", <<address, size>>,
                 readBlock(Bus(wire, chip), address, size, garbage))

SetAutoStore ==
    \E value \in BOOLEAN :
        Returned("setAutoStore", <<value>>,
                 setAutoStore(Bus(wire, chip), value))

GetAutoStore ==
    Returned("getAutoStore", <<>>, getAutoStore(Bus(wire, chip)))

SetWriteProtect(L) ==
    \E prot \in L :
        Returned("setWriteProtect", <<prot>>,
                 setWriteProtect(Bus(wire, chip), prot))

GetWriteProtect ==
    Returned("getWriteProtect", <<>>, getWriteProtect(Bus(wire, chip)))

SetEventBit ==
    \E value \in BOOLEAN :
        Returned("setEventBit", <<value>>,
                 setEventBit(Bus(wire, chip), value))

GetEventBit ==
    Returned("getEventBit", <<>>, getEventBit(Bus(wire, chip)))

GetMatch ==
    Returned("getMatch", <<>>, getMatch(Bus(wire, chip)))

Store ==
    Returned("store", <<>>, store(Bus(wire, chip)))

Recall ==
    Returned("recall", <<>>, recall(Bus(wire, chip)))

(***************************************************************************)
(* Inputs                                                                  *)
(***************************************************************************)
\* longest block written or read in one call
MaxBlock == 1

\* values of the configuration pins
Pins == {0, 1}

\* values of begin()'s SIZE: the two densities, and with one that is none
Densities == {4, 16}
Sizes == {4, 8, 16}

\* 16-bit addresses: both ends of each density's range and beyond
Offsets == {0, 511, 512, 2047, 2048, 65535}

\* addresses of blocks: the last cell of the 4K range, and beyond both
BlockOffsets == {511, 65535}

\* bytes written
Bytes == {0, 165}

\* blocks written, and numbers of bytes read
Blocks == UNION {[1..n -> {165}] : n \in 0..MaxBlock}
Counts == 0..MaxBlock

\* write-protect levels asked for
Levels == (0..8) \cup {16, 32, 64, 128, 255}

\* values a function that returns nothing may leave in the return register
Garbage == {0, 255}

(***************************************************************************)
(* Spec: every method, called in any order with few arguments.             *)
(***************************************************************************)
Init == FirstBegin(Pins, Sizes, {0})

Next ==
    \/ Begin(Pins, Sizes)
    \/ Write({512, 65535}, {165})
    \/ Read({512, 65535})
    \/ WriteBlock({512, 65535}, {<<165>>})
    \/ ReadBlock({512, 65535}, {1}, Garbage)
    \/ SetAutoStore
    \/ GetAutoStore
    \/ SetWriteProtect({5, 8})
    \/ GetWriteProtect
    \/ SetEventBit
    \/ GetEventBit
    \/ GetMatch
    \/ Store
    \/ Recall

Spec == Init /\ [][Next]_vars

(***************************************************************************)
(* SpecData: the data methods on a handle of either density, with the      *)
(* addresses at the ends of the ranges.                                    *)
(***************************************************************************)
InitData == FirstBegin(Pins, Densities, {0})

NextData ==
    \/ Write(Offsets, Bytes)
    \/ Read(Offsets)
    \/ WriteBlock(BlockOffsets, Blocks)
    \/ ReadBlock(BlockOffsets, Counts, Garbage)

SpecData == InitData /\ [][NextData]_vars

(***************************************************************************)
(* SpecControl: the control methods, from every value of the STATUS        *)
(* register.                                                               *)
(***************************************************************************)
InitControl == FirstBegin(Pins, {16}, 0..255)

NextControl ==
    \/ SetAutoStore
    \/ GetAutoStore
    \/ SetWriteProtect(Levels)
    \/ GetWriteProtect
    \/ SetEventBit
    \/ GetEventBit
    \/ GetMatch
    \/ Store
    \/ Recall

SpecControl == InitControl /\ [][NextControl]_vars

(***************************************************************************)
(* Vocabulary of the properties                                            *)
(***************************************************************************)
\* the methods that address the SRAM bank, and those that address the
\* control bank
DataOps == {"write", "read", "writeBlock", "readBlock"}
ControlSetters == {"setAutoStore", "setWriteProtect", "setEventBit"}
ControlGetters == {"getAutoStore", "getWriteProtect", "getEventBit",
                   "getMatch"}
ControlOps == ControlSetters \cup ControlGetters \cup {"store", "recall"}

\* capacity_mask, and the in-bounds test on the high byte of an offset
CapacityMask == U8(STORAGE_ARRAY_SIZE)
InBounds(addr) == And(addr \div 256, CapacityMask) = 0

\* the call c fails its argument check
Rejects(c) ==
    \/ c.op \in DataOps /\ ~InBounds(c.args[1])
    \/ c.op = "setWriteProtect" /\ c.args[1] > 7

\* the bus addresses the primitives of a log name
Addressed(l) ==
    {l[i][2] : i \in {j \in 1..Len(l) :
                         l[j][1] \in {"beginTransmission", "requestFrom"}}}

\* the bytes handed to Wire.write in a log, in order
Written(l) ==
    LET W == SelectSeq(l, LAMBDA e : e[1] = "write")
    IN [i \in 1..Len(W) |-> W[i][2]]

RECURSIVE Scan(_, _, _)
\* reading a log from entry i on, with a transmission open or not: the
\* number of write transactions (beginTransmission ... endTransmission),
\* of read transactions (requestFrom), of endTransmission calls with no
\* transmission begun, and whether a transmission is left open
Scan(l, i, open) ==
    IF i > Len(l)
    THEN [writes |-> 0, reads |-> 0, stray |-> 0, open |-> open]
    ELSE LET e == l[i][1]
             r == Scan(l, i + 1,
                       IF e = "beginTransmission" THEN TRUE
                       ELSE IF e = "endTransmission" THEN FALSE
                       ELSE open)
         IN CASE e = "endTransmission" /\ open ->
                     [r EXCEPT !.writes = @ + 1]
              [] e = "endTransmission" /\ ~open ->
                     [r EXCEPT !.stray = @ + 1]
              [] e = "requestFrom" -> [r EXCEPT !.reads = @ + 1]
              [] OTHER -> r

\* the number of bus transactions of a log
Transactions(l) == Scan(l, 1, FALSE).writes + Scan(l, 1, FALSE).reads

\* the cells of the SRAM array other than a hold the same bytes
SameElsewhere(m1, m2, a) ==
    \A x \in ((DOMAIN m1) \cup (DOMAIN m2)) \ {a} : MemAt(m1, x) = MemAt(m2, x)

(***************************************************************************)
(* C1: round trip.  An in-bounds write(address, value) returns 0 and       *)
(* stores value in the cell at address, and in no other; an in-bounds      *)
(* read(address) returns the byte the cell at address holds and changes no *)
(* cell; so read(address) right after write(address, value) returns value, *)
(* and after any run of writes a read returns the byte last written.       *)
(***************************************************************************)
C1_WriteStores ==
    (call'.op = "write" /\ InBounds(call'.args[1])) =>
        /\ ret' = <<0>>
        /\ MemAt(chip'.mem, call'.args[1]) = call'.args[2]
        /\ SameElsewhere(chip.mem, chip'.mem, call'.args[1])

C1_ReadFetches ==
    (call'.op = "read" /\ InBounds(call'.args[1])) =>
        /\ ret' = <<MemAt(chip.mem, call'.args[1])>>
        /\ chip'.mem = chip.mem

C1_WriteThenRead ==
    (/\ call.op = "write" /\ InBounds(call.args[1])
     /\ call'.op = "read" /\ call'.args[1] = call.args[1]) =>
        ret' = <<call.args[2]>>

C1_RoundTrip ==
    [][C1_WriteStores /\ C1_ReadFetches /\ C1_WriteThenRead]_vars

\* a read at the top of the 16K range returns the non-zero byte written there
C1_Witness ==
    /\ call.op = "read"
    /\ call.args[1] = 2047
    /\ ret = <<165>>

(***************************************************************************)
(* C2: fail fast.  A data method called with an out-of-bounds offset, or   *)
(* setWriteProtect called with a level above 7, invokes no transport       *)
(* primitive and leaves the transport and the chip as they were.           *)
(***************************************************************************)
C2_FailFast ==
    [][Rejects(call') => (log' = <<>> /\ chip' = chip /\ wire' = wire)]_vars

\* a block write refused on a 4K handle at an offset a 16K handle accepts
C2_Witness ==
    /\ call.op = "writeBlock"
    /\ call.args[1] = 512
    /\ ret = <<5>>
    /\ log = <<>>

(***************************************************************************)
(* C3: begin(A0, A1, SIZE) sets SRAM_REGISTER to 0x50 | ((A0<<1 | A1)<<1)  *)
(* and CONTROL_REGISTER to 0x18 | ((A0<<1 | A1)<<1); no other method       *)
(* changes them; a data method addresses SRAM_REGISTER only and a control  *)
(* method CONTROL_REGISTER only.                                           *)
(***************************************************************************)
C3_AddressesSet ==
    call.op = "begin" =>
        /\ SRAM_REGISTER = 80 + 4 * call.args[1] + 2 * call.args[2]
        /\ CONTROL_REGISTER = 24 + 4 * call.args[1] + 2 * call.args[2]

C3_AddressesUsed ==
    /\ call.op \in DataOps =>
          Addressed(log) = IF Rejects(call) THEN {} ELSE {SRAM_REGISTER}
    /\ call.op \in ControlOps =>
          Addressed(log) = IF Rejects(call) THEN {} ELSE {CONTROL_REGISTER}

C3_AddressesKept ==
    call'.op # "begin" =>
        UNCHANGED <<SRAM_REGISTER, CONTROL_REGISTER>>

C3_Addresses ==
    /\ [](C3_AddressesSet /\ C3_AddressesUsed)
    /\ [][C3_AddressesKept]_vars

\* a data method has addressed the SRAM bank of the chip with both pins high
C3_Witness ==
    /\ call.op = "read"
    /\ Addressed(log) = {86}

(***************************************************************************)
(* C4: begin with SIZE 16 stores the mask 0xF8 and returns 0; with SIZE 4  *)
(* it stores 0xFE and returns 0; with any other SIZE in 0..255 it stores   *)
(* 0xF8, returns 1, and has still set both bus addresses.                  *)
(***************************************************************************)
C4_Density ==
    /\ call.op = "begin" =>
          /\ call.args[3] = 16 => (CapacityMask = 248 /\ ret = <<0>>)
          /\ call.args[3] = 4 => (CapacityMask = 254 /\ ret = <<0>>)
          /\ call.args[3] \notin {4, 16} =>
                /\ CapacityMask = 248
                /\ ret = <<1>>
                /\ SRAM_REGISTER = 80 + 4 * call.args[1] + 2 * call.args[2]
                /\ CONTROL_REGISTER = 24 + 4 * call.args[1] + 2 * call.args[2]
    /\ \A SIZE \in (0..255) \ {4, 16} :
          LET r == begin(Bus(wire, chip), 0, 0, SIZE)
          IN U8(r.STORAGE_ARRAY_SIZE) = 248 /\ r.ret = <<1>>

\* begin was called with a SIZE that is no density and reported it
C4_Witness ==
    /\ call.op = "begin"
    /\ call.args[3] = 8
    /\ ret = <<1>>

(***************************************************************************)
(* C5, as claimed: an out-of-bounds read(address) returns a result that    *)
(* differs from the result of an in-bounds read of a cell holding 0.       *)
(***************************************************************************)
C5_Distinguishable ==
    [][(/\ call.op = "read" /\ ~InBounds(call.args[1])
        /\ call'.op = "read" /\ InBounds(call'.args[1])
        /\ MemAt(chip.mem, call'.args[1]) = 0) => ret' # ret]_vars

(***************************************************************************)
(* C5, amended: an out-of-bounds read(address) returns the byte 0 and      *)
(* nothing else, having invoked no transport primitive; an in-bounds read  *)
(* of a cell holding 0 returns the same 0.  Only the bus traffic tells the *)
(* two apart.                                                              *)
(***************************************************************************)
C5_ZeroEitherWay ==
    [][call'.op = "read" =>
          /\ ~InBounds(call'.args[1]) => (ret' = <<0>> /\ log' = <<>>)
          /\ (InBounds(call'.args[1]) /\ MemAt(chip.mem, call'.args[1]) = 0)
                => (ret' = <<0>> /\ log' # <<>>)]_vars

\* a refused read has returned 0
C5_Witness ==
    /\ call.op = "read"
    /\ ~InBounds(call.args[1])
    /\ ret = <<0>>

(***************************************************************************)
(* C6: a control setter changes only its own field.  The byte it writes    *)
(* back, which becomes the STATUS register, equals the STATUS register     *)
(* before the call outside bit 1 for setAutoStore, outside bit 0 for       *)
(* setEventBit, and outside bits 2-4 for setWriteProtect(level <= 7).      *)
(***************************************************************************)
\* the bits of the control register that belong to a setter
OwnBits(op) ==
    CASE op = "setAutoStore" -> 2
      [] op = "setEventBit" -> 1
      [] op = "setWriteProtect" -> 28

\* x and y agree outside the bits of mask m
SameOutside(x, y, m) == And(x, 255 - m) = And(y, 255 - m)

C6_Frame ==
    [][(call'.op \in ControlSetters /\ ~Rejects(call')) =>
          /\ Written(log')[Len(Written(log'))] = chip'.status
          /\ SameOutside(chip'.status, chip.status, OwnBits(call'.op))]_vars

\* setWriteProtect has run on a register with every other bit set
C6_Witness ==
    /\ call.op = "setWriteProtect"
    /\ ret = <<0>>
    /\ And(chip.status, 227) = 227

(***************************************************************************)
(* C7: setWriteProtect(level) with level <= 7 returns 0 and leaves level   *)
(* in bits 2-4 of the STATUS register; with level > 7 it returns 1 and     *)
(* leaves the register as it was; getWriteProtect returns bits 2-4 of the  *)
(* register and leaves it as it was.  So getWriteProtect right after       *)
(* setWriteProtect(level <= 7) returns level, and after a refused call it  *)
(* returns the level in effect before.                                     *)
(***************************************************************************)
\* the write-protect level a STATUS byte holds
LevelIn(status) == (status \div 4) % 8

C7_Set ==
    call'.op = "setWriteProtect" =>
        IF call'.args[1] <= 7
        THEN ret' = <<0>> /\ LevelIn(chip'.status) = call'.args[1]
        ELSE ret' = <<1>> /\ chip'.status = chip.status

C7_Get ==
    call'.op = "getWriteProtect" =>
        ret' = <<LevelIn(chip.status)>> /\ chip'.status = chip.status

C7_SetThenGet ==
    (call.op = "setWriteProtect" /\ call'.op = "getWriteProtect") =>
        /\ call.args[1] <= 7 => ret' = <<call.args[1]>>
        /\ call.args[1] > 7 => ret' = <<LevelIn(chip.status)>>

C7_WriteProtectRoundTrip ==
    [][C7_Set /\ C7_Get /\ C7_SetThenGet]_vars

\* setWriteProtect(5) has run and left level 5 among the other bits, all set
C7_Witness ==
    /\ call.op = "setWriteProtect"
    /\ call.args[1] = 5
    /\ ret = <<0>>
    /\ chip.status = 247

(***************************************************************************)
(* C8: with the mask begin stores for density 16, write(address, value)    *)
(* and read(address) accept exactly the addresses 0x0000..0x07FF; with the *)
(* mask for density 4, exactly 0x0000..0x01FF.  The mask is the one begin  *)
(* stored for that density and no data method changes it.                  *)
(***************************************************************************)
\* the highest valid address of a chip of the given density
LastAddress(density) == IF density = 16 THEN 2047 ELSE 511

\* the density whose mask the handle holds
DensityHeld == IF CapacityMask = 248 THEN 16 ELSE 4

\* the last call was a write or a read and went on to the bus
Accepted ==
    \/ call.op = "write" /\ ret # <<5>> /\ log # <<>>
    \/ call.op = "read" /\ log # <<>>

C8_MaskOfDensity ==
    (call.op = "begin" /\ call.args[3] \in Densities) =>
        (CapacityMask \in {248, 254} /\ DensityHeld = call.args[3])

C8_RangeOfCall ==
    call.op \in {"write", "read"} =>
        (Accepted <=> call.args[1] <= LastAddress(DensityHeld))

C8_RangeOfAll ==
    call.op = "begin" =>
        \A address \in 0..65535 :
            /\ writeOutOfBounds(address) <=> address > LastAddress(DensityHeld)
            /\ readOutOfBounds(address) <=> address > LastAddress(DensityHeld)

C8_MaskKept ==
    call'.op # "begin" => UNCHANGED STORAGE_ARRAY_SIZE

C8_Range ==
    /\ [](C8_MaskOfDensity /\ C8_RangeOfCall /\ C8_RangeOfAll)
    /\ [][C8_MaskKept]_vars

\* a write at the last address of the 16K range went through
C8_Witness ==
    /\ call.op = "write"
    /\ call.args[1] = 2047
    /\ Accepted

(***************************************************************************)
(* C9: store() invokes beginTransmission(CONTROL_REGISTER), write(0x55),   *)
(* write(0x33), endTransmission() and nothing else; recall() the same with *)
(* 0xDD for 0x33.                                                          *)
(***************************************************************************)
C9_Commands ==
    /\ call.op = "store" =>
          log = << <<"beginTransmission", CONTROL_REGISTER>>,
                   <<"write", 85>>, <<"write", 51>>, <<"endTransmission">> >>
    /\ call.op = "recall" =>
          log = << <<"beginTransmission", CONTROL_REGISTER>>,
                   <<"write", 85>>, <<"write", 221>>, <<"endTransmission">> >>

\* recall() has run on the handle of the chip with both pins high
C9_Witness ==
    /\ call.op = "recall"
    /\ CONTROL_REGISTER = 30
    /\ Written(log) = <<85, 221>>

(***************************************************************************)
(* C10, as claimed: every method other than begin, when it passes its      *)
(* argument check, issues one or two bus transactions, all complete when   *)
(* it returns.                                                             *)
(***************************************************************************)
C10_OneOrTwo ==
    (call.op # "begin" /\ ~Rejects(call)) =>
        /\ Transactions(log) \in {1, 2}
        /\ ~Scan(log, 1, FALSE).open

(***************************************************************************)
(* C10, amended: a method whose argument check fails issues no bus         *)
(* transaction; write, the block write, store and recall issue one; read,  *)
(* the block read and the control getters issue two; the control setters   *)
(* issue three (two to read the control register, one to write it back).   *)
(* All are complete when the method returns.  A method that reads also     *)
(* calls endTransmission once with no transmission begun.                  *)
(***************************************************************************)
\* the number of bus transactions of a call that passes its argument check
TransactionsOf(op) ==
    CASE op \in {"write", "writeBlock", "store", "recall"} -> 1
      [] op \in {"read", "readBlock"} \cup ControlGetters -> 2
      [] op \in ControlSetters -> 3

C10_UpToThree ==
    call.op # "begin" =>
        /\ Transactions(log) =
              IF Rejects(call) THEN 0 ELSE TransactionsOf(call.op)
        /\ ~Scan(log, 1, FALSE).open
        /\ ~wire.transmitting
        /\ wire.rxBuffer = <<>>
        /\ Scan(log, 1, FALSE).stray =
              IF Rejects(call) \/ TransactionsOf(call.op) = 1 THEN 0 ELSE 1

\* a control setter has returned after three transactions
C10_Witness ==
    /\ call.op = "setAutoStore"
    /\ Transactions(log) = 3

====
